---- MODULE Spec2Model ----
(***************************************************************************)
(* Model of mx (src/src/main.rs): a bulk uploader.  main() classifies the  *)
(* supplied paths, walks the directories, keeps the video files and runs   *)
(* begin_upload -> upload_file -> finalize_file for each of them on a      *)
(* rayon pool of four threads.                                             *)
(*                                                                         *)
(* The file system and the remote service are the environment.  The file   *)
(* system is the fixed table FS.  Three specifications run the program:    *)
(*   Spec         any command line over ArgPaths, a service with one fault *)
(*                per call (BasicInitiateResponses, ...);                  *)
(*   SpecService  command lines of video files, a service that answers     *)
(*                with any response of InitiateResponses,                  *)
(*                TransferResponses and FinalizeResponses;                 *)
(*   SpecPool     more targets than threads, a service without faults.     *)
(***************************************************************************)
EXTENDS Integers, Sequences, FiniteSets, TLC

(* ------------------------------ bounds -------------------------------- *)

\* Longest command line (number of FILE arguments) of specification Spec.
MaxArgs == 2

\* Longest command line of specification SpecService.
MaxFiles == 2

\* Largest number of FILE arguments of specification SpecPool.
MaxPool == 5

(* ------------------------- program constants -------------------------- *)

\* rayon::ThreadPoolBuilder::new().num_threads(4)
NumThreads == 4

Workers == 1..NumThreads

\* opt.tags
tags == "tag"

(* ---------------------------- file system ----------------------------- *)

\* kind: what is_dir()/is_file() see (both follow symbolic links, so a
\* dangling link and a missing path are "none"); ext: the extension that
\* mime_guess looks at; meta: std::fs::metadata succeeds; open: File::open
\* succeeds; utf8: path.to_str() is Some; name: path.file_name().to_str() is
\* Some; entries: what WalkDir yields for a directory, itself first; walk:
\* every entry WalkDir yields is Ok (FALSE: after `entries` comes an Err).
\* "<FF>" stands for a byte that is not UTF-8.
File(kind, ext, meta, open, utf8, name) ==
  [kind |-> kind, ext |-> ext, meta |-> meta, open |-> open,
   utf8 |-> utf8, name |-> name, entries |-> << >>, walk |-> TRUE]

Dir(entries, walk) ==
  [kind |-> "dir", ext |-> "", meta |-> TRUE, open |-> TRUE,
   utf8 |-> TRUE, name |-> TRUE, entries |-> entries, walk |-> walk]

FS ==
  [p \in {"a.mp4", "n.txt", "x", "<FF>", "q<FF>/a.mp4",
          "d", "d/u.mp4", "d/n.txt", "g", "g/l.mp4", "g/<FF>.mp4",
          "e", "e/a.mp4", "e/s"} |->
     CASE p = "a.mp4"       -> File("file", "mp4", TRUE,  TRUE,  TRUE,  TRUE)
       [] p = "n.txt"       -> File("file", "txt", TRUE,  TRUE,  TRUE,  TRUE)
       [] p = "x"           -> File("none", "",    FALSE, FALSE, TRUE,  TRUE)
       [] p = "<FF>"        -> File("none", "",    FALSE, FALSE, FALSE, FALSE)
       [] p = "q<FF>/a.mp4" -> File("file", "mp4", TRUE,  TRUE,  FALSE, TRUE)
       [] p = "d"           -> Dir(<<"d", "d/u.mp4", "d/n.txt">>, TRUE)
       [] p = "d/u.mp4"     -> File("file", "mp4", TRUE,  FALSE, TRUE,  TRUE)
       [] p = "d/n.txt"     -> File("file", "txt", TRUE,  TRUE,  TRUE,  TRUE)
       [] p = "g"           -> Dir(<<"g", "g/l.mp4", "g/<FF>.mp4">>, TRUE)
       [] p = "g/l.mp4"     -> File("none", "mp4", FALSE, FALSE, TRUE,  TRUE)
       [] p = "g/<FF>.mp4"  -> File("file", "mp4", TRUE,  TRUE,  FALSE, FALSE)
       [] p = "e"           -> Dir(<<"e", "e/a.mp4", "e/s">>, FALSE)
       [] p = "e/a.mp4"     -> File("file", "mp4", TRUE,  TRUE,  TRUE,  TRUE)
       [] p = "e/s"         -> Dir(<<"e/s">>, FALSE)]

\* The paths a command line of Spec is made of.
ArgPaths == {"a.mp4", "n.txt", "x", "<FF>", "q<FF>/a.mp4", "d", "g", "e"}

\* The paths a command line of SpecService is made of: readable videos.
FileArgs == {"a.mp4", "q<FF>/a.mp4"}

is_dir(p) == FS[p].kind = "dir"

is_file(p) == FS[p].kind = "file"

NoGuess == [type |-> "", subtype |-> ""]

\* mime_guess::from_path(path).first(): decided by the extension alone.
mime_guess(p) ==
  CASE FS[p].ext = "mp4" -> [type |-> "video", subtype |-> "mp4"]
    [] FS[p].ext = "txt" -> [type |-> "text", subtype |-> "plain"]
    [] OTHER -> NoGuess

is_video(p) ==
  LET guess == mime_guess(p)
  IN  IF guess = NoGuess THEN FALSE ELSE guess.type = "video"

\* path.to_str() is Some
Utf8(p) == FS[p].utf8

\* path.file_name().unwrap().to_str() is Some
FileNameUtf8(p) == FS[p].name

\* The entries WalkDir::new(dir) yields as Ok, in order.
WalkDir(dir) == FS[dir].entries

\* Every entry of WalkDir::new(dir) is Ok, so that entry.unwrap() returns.
WalkOk(dir) == FS[dir].walk

\* The two loops over directories: what was pushed, and whether the loops
\* ran to their end (ok) or entry.unwrap() panicked on the way.
RECURSIVE WalkAll(_)
WalkAll(dirs) ==
  IF dirs = << >> THEN [pushed |-> << >>, ok |-> TRUE]
  ELSE IF ~WalkOk(Head(dirs)) THEN [pushed |-> WalkDir(Head(dirs)), ok |-> FALSE]
  ELSE LET rest == WalkAll(Tail(dirs))
       IN  [pushed |-> WalkDir(Head(dirs)) \o rest.pushed, ok |-> rest.ok]

(* ------------------------------ service ------------------------------- *)

\* What the service answers: a transport fault (send() returns Err), or a
\* response with a status and a body.  send() returns when the status line
\* and the headers are there; the body comes with a later read, by
\* response.json(), and is a JSON document of one of three shapes.
SendError == [sent |-> FALSE, status |-> 0, body |-> [kind |-> "none"]]

Response(s, b) == [sent |-> TRUE, status |-> s, body |-> b]

\* The body of a response the client has not read (yet, or at all).
Unread == [kind |-> "unread"]

\* What send() can return against a service that answers with one of R.
Headers(R) == { IF r.sent THEN Response(r.status, Unread) ELSE r : r \in R }

Garbage == [kind |-> "garbage"]

ErrorBody == [kind |-> "error", status |-> "error", reason |-> "duplicate file"]

\* {id, url} as the service issues it for the Initiate request of task i:
\* a fresh session per request.
SessionBody(i) == [kind |-> "session", id |-> i, url |-> <<"put", i>>]

\* {id, url} as the service answers a Finalize request for session id.
FinalBody(id) == [kind |-> "session", id |-> id, url |-> <<"final", id>>]

InitiateResponses(i) ==
  { SendError,
    Response(403, ErrorBody),
    Response(400, ErrorBody), Response(400, Garbage),
    Response(200, SessionBody(i)), Response(200, Garbage),
    Response(500, SessionBody(i)) }

\* upload_file never reads the body of the answer to its PUT.
TransferResponses == { SendError, Response(200, Unread), Response(500, Unread) }

FinalizeResponses(id) ==
  { SendError,
    Response(403, ErrorBody),
    Response(200, FinalBody(id)), Response(200, Garbage),
    Response(500, FinalBody(id)) }

\* The answers of a service with one fault per call (specification Spec):
\* a rejected credential on Initiate and Finalize, a lost connection on
\* Transfer.
BasicInitiateResponses(i) == { Response(403, ErrorBody), Response(200, SessionBody(i)) }

BasicTransferResponses == { SendError, Response(200, Unread) }

BasicFinalizeResponses(id) == { Response(403, ErrorBody), Response(200, FinalBody(id)) }

\* The answers of a service without faults (specification SpecPool).
PoolInitiateResponses(i) == { Response(200, SessionBody(i)) }

PoolTransferResponses == { Response(200, Unread) }

PoolFinalizeResponses(id) == { Response(200, FinalBody(id)) }

(* --------------------------- protocol client -------------------------- *)

Ok(v) == [ok |-> TRUE, val |-> v, err |-> ""]

NoSession == [id |-> 0, url |-> <<"none", 0>>]

Err(e) == [ok |-> FALSE, val |-> NoSession, err |-> e]

\* response.json::<NewUploadResponse>() and ::<FinalizeUploadResponse>():
\* the body must have the fields id and url.
DecodeNewUploadResponse(body) ==
  IF body.kind = "session"
    THEN Ok([id |-> body.id, url |-> body.url])
    ELSE Err("error decoding response body")

\* response.json::<NewUploadError>(): the body must have status and reason.
DecodeNewUploadError(body) ==
  IF body.kind = "error"
    THEN Ok([status |-> body.status, reason |-> body.reason])
    ELSE Err("error decoding response body")

\* begin_upload that takes only a success status for a session.
begin_uploadStatus(r) ==
  IF ~r.sent THEN Err("error sending request")
  ELSE IF r.status = 403 THEN Err("Invalid API key")
  ELSE IF r.status = 400
    THEN LET json == DecodeNewUploadError(r.body)
         IN  IF json.ok THEN Err(json.val.reason) ELSE Err(json.err)
  ELSE IF r.status \notin 200..299 THEN Err("bad status")
  ELSE DecodeNewUploadResponse(r.body)

\* begin_upload without the branch for status 400.
begin_uploadNo400(r) ==
  IF ~r.sent THEN Err("error sending request")
  ELSE IF r.status = 403 THEN Err("Invalid API key")
  ELSE DecodeNewUploadResponse(r.body)

\* begin_upload from .send() on: r is what send() returned, with the body
\* response.json() read, if it read one.
begin_upload(r) ==
  IF ~r.sent THEN Err("error sending request")
  ELSE IF r.status = 403 THEN Err("Invalid API key")
  ELSE IF r.status = 400
    THEN LET json == DecodeNewUploadError(r.body)
         IN  IF json.ok THEN Err(json.val.reason) ELSE Err(json.err)
  ELSE DecodeNewUploadResponse(r.body)

\* upload_file that drops the result of send() as well as the response.
upload_fileMut(r) == Ok(NoSession)

\* upload_file from .send() on: the response is dropped unread.
upload_file(r) ==
  IF ~r.sent THEN Err("error sending request") ELSE Ok(NoSession)

\* send()? returned a response and its status is not 403: begin_upload and
\* finalize_file go on to response.json().
ReadsBody(h) == h.sent /\ h.status # 403

\* finalize_file without the test for status 403.
finalize_fileNo403(r) ==
  IF ~r.sent THEN Err("error sending request")
  ELSE DecodeNewUploadResponse(r.body)

\* finalize_file from .send() on.
finalize_file(r) ==
  IF ~r.sent THEN Err("error sending request")
  ELSE IF r.status = 403 THEN Err("Invalid API key")
  ELSE DecodeNewUploadResponse(r.body)

(* ------------------------------- state -------------------------------- *)

VARIABLES
  args,         \* opt.paths
  pc,           \* where main() is
  k,            \* index of the next path of the classification loop
  files,        \* Vec<PathBuf> files
  directories,  \* Vec<PathBuf> directories
  output,       \* what main() itself printed, in order
  exitCode,     \* process exit status, -1 while the process runs
  task,         \* one closure invocation of for_each per entry of files
  worker,       \* worker[w]: the task thread w of the pool runs, 0 if none
  reports       \* reports[i]: the outcome lines task i printed

vars == <<args, pc, k, files, directories, output, exitCode, task, worker, reports>>

TaskIds == DOMAIN task

\* The value of the chain begin_upload.and_then(..).and_then(..) before the
\* closure has computed it.
NoResult == [ok |-> FALSE, val |-> NoSession, err |-> "none"]

\* result: what the chain evaluated to, the scrutinee of the match.
NewTask(p) ==
  [path |-> p, st |-> "pending", response |-> NoSession, calls |-> << >>,
   result |-> NoResult]

\* A network call of a task: the operation, what it was given, and what the
\* client has of the answer.  pending: the function that made the call has
\* not got its answer yet (resp is meaningless before send() returned, and
\* has an unread body while response.json() is reading it).
Call(op, arg) == [op |-> op, arg |-> arg, pending |-> TRUE, resp |-> SendError]

\* The status in the record of a call whose status is forgotten: a closure
\* looks at one response at a time, and the record of a call keeps the
\* status it was answered with until the next call of the closure gets its
\* answer.
NoStatus == 0

\* send() returned h and response.json() is reading the body.
Reading(call, h) == [call EXCEPT !.resp = h]

Returned(call, r) == [call EXCEPT !.pending = FALSE, !.resp = r]

\* The calls of task i with the status of all but the last one forgotten.
Forget(i) ==
  [j \in 1..Len(task[i].calls) |->
     IF j < Len(task[i].calls) THEN [task[i].calls[j] EXCEPT !.resp.status = NoStatus]
                               ELSE task[i].calls[j]]

\* send() of the last call of task i returned h; the body is still to read.
Receive(i, h) ==
  [Forget(i) EXCEPT ![Len(task[i].calls)] = Reading(@, h)]

\* The last call of task i gets its answer.
Answer(i, r) ==
  [Forget(i) EXCEPT ![Len(task[i].calls)] = Returned(@, r)]

\* What send() returned for the last call of task i.
Received(i) == task[i].calls[Len(task[i].calls)].resp

FinalizeUploadRequest(id) ==
  [id |-> id, tags |-> tags, source |-> "", description |-> "", date |-> "None"]

Uploaded(p, url) == [kind |-> "Uploaded", path |-> p, url |-> url, err |-> ""]

Error(p, e) == [kind |-> "Error", path |-> p, url |-> <<"none", 0>>, err |-> e]

\* Every sequence over S of length at most n.
SeqsUpTo(S, n) == UNION { [1..m -> S] : m \in 0..n }

Init ==
  /\ args \in SeqsUpTo(ArgPaths, MaxArgs)
  /\ pc = "classify"
  /\ k = 1
  /\ files = << >>
  /\ directories = << >>
  /\ output = << >>
  /\ exitCode = -1
  /\ task = << >>
  /\ worker = [w \in Workers |-> 0]
  /\ reports = << >>

\* mx a.mp4 q<FF>/a.mp4 ... : up to MaxFiles videos.
InitService ==
  /\ args \in SeqsUpTo(FileArgs, MaxFiles)
  /\ pc = "classify"
  /\ k = 1
  /\ files = << >>
  /\ directories = << >>
  /\ output = << >>
  /\ exitCode = -1
  /\ task = << >>
  /\ worker = [w \in Workers |-> 0]
  /\ reports = << >>

\* mx a.mp4 d a.mp4 d ... : up to MaxPool targets, in turn the video a.mp4
\* and the video of directory d.
InitPool ==
  /\ args \in { [j \in 1..m |-> IF j % 2 = 1 THEN "a.mp4" ELSE "d"] : m \in 1..MaxPool }
  /\ pc = "classify"
  /\ k = 1
  /\ files = << >>
  /\ directories = << >>
  /\ output = << >>
  /\ exitCode = -1
  /\ task = << >>
  /\ worker = [w \in Workers |-> 0]
  /\ reports = << >>

(* -------------------------------- main -------------------------------- *)

\* A loop that reports an invalid path and goes on to the next one.
ClassifyPathSkip ==
  /\ pc = "classify"
  /\ IF k > Len(args)
       THEN /\ pc' = "walk"
            /\ UNCHANGED <<k, files, directories, output, exitCode>>
       ELSE LET path == args[k]
            IN  IF is_dir(path)
                  THEN /\ directories' = Append(directories, path)
                       /\ k' = k + 1
                       /\ UNCHANGED <<pc, files, output, exitCode>>
                ELSE IF is_file(path)
                  THEN /\ files' = Append(files, path)
                       /\ k' = k + 1
                       /\ UNCHANGED <<pc, directories, output, exitCode>>
                ELSE IF Utf8(path)
                  THEN /\ output' = Append(output, "Invalid file or directory")
                       /\ k' = k + 1
                       /\ UNCHANGED <<pc, files, directories, exitCode>>
                ELSE /\ output' = Append(output, "panicked at src/main.rs:178")
                     /\ k' = k + 1
                     /\ UNCHANGED <<pc, files, directories, exitCode>>
  /\ UNCHANGED <<args, task, worker, reports>>

\* One iteration of  for path in opt.paths.into_iter(), or the end of the
\* loop.  The last branch formats path.to_str().unwrap() before it prints:
\* for a path that is not UTF-8 main panics there, the line is not printed
\* and the process ends with status 101.
ClassifyPath ==
  /\ pc = "classify"
  /\ IF k > Len(args)
       THEN /\ pc' = "walk"
            /\ UNCHANGED <<k, files, directories, output, exitCode>>
       ELSE LET path == args[k]
            IN  IF is_dir(path)
                  THEN /\ directories' = Append(directories, path)
                       /\ k' = k + 1
                       /\ UNCHANGED <<pc, files, output, exitCode>>
                ELSE IF is_file(path)
                  THEN /\ files' = Append(files, path)
                       /\ k' = k + 1
                       /\ UNCHANGED <<pc, directories, output, exitCode>>
                ELSE IF Utf8(path)
                  THEN /\ output' = Append(output, "Invalid file or directory")
                       /\ exitCode' = 1
                       /\ pc' = "exited"
                       /\ UNCHANGED <<k, files, directories>>
                ELSE /\ output' = Append(output, "panicked at src/main.rs:178")
                     /\ exitCode' = 101
                     /\ pc' = "exited"
                     /\ UNCHANGED <<k, files, directories>>
  /\ UNCHANGED <<args, task, worker, reports>>

\* for dir in directories.iter() { for entry in WalkDir::new(dir) { push } }
\* entry.unwrap() panics in main on the first entry that is an Err: status
\* 101, before the filter.
WalkDirs ==
  /\ pc = "walk"
  /\ LET walk == WalkAll(directories)
     IN  /\ files' = files \o walk.pushed
         /\ IF walk.ok
              THEN /\ pc' = "filter"
                   /\ UNCHANGED <<output, exitCode>>
              ELSE /\ output' = Append(output, "panicked at src/main.rs:185")
                   /\ exitCode' = 101
                   /\ pc' = "exited"
  /\ UNCHANGED <<args, k, directories, task, worker, reports>>

\* A filter step that keeps every path.
FilterFilesKeepAll ==
  /\ pc = "filter"
  /\ files' = files
  /\ pc' = "check"
  /\ UNCHANGED <<args, k, directories, output, exitCode, task, worker, reports>>

\* files = files.into_iter().filter(|file| is_video(file)).collect()
FilterFiles ==
  /\ pc = "filter"
  /\ files' = SelectSeq(files, is_video)
  /\ pc' = "check"
  /\ UNCHANGED <<args, k, directories, output, exitCode, task, worker, reports>>

\* An emptiness test that never fires.
NoFilesMut(fs) == FALSE

NoFiles(fs) == Len(fs) = 0

\* if files.len() == 0 { exit(1) }, else the banner and into_par_iter().
CheckEmpty ==
  /\ pc = "check"
  /\ IF NoFiles(files)
       THEN /\ output' = Append(output, "No video files found.")
            /\ exitCode' = 1
            /\ pc' = "exited"
            /\ UNCHANGED <<task, reports>>
       ELSE /\ output' = Append(output, "Uploading files")
            /\ pc' = "for_each"
            /\ task' = [i \in 1..Len(files) |-> NewTask(files[i])]
            /\ reports' = [i \in 1..Len(files) |-> << >>]
            /\ UNCHANGED exitCode
  /\ UNCHANGED <<args, k, files, directories, worker>>

(* ------------------------------ executor ------------------------------ *)

\* A pool whose threads take a target while blocked in a call.
WorkerIdleMut(w) == TRUE

\* A thread takes a target only when it runs no closure.
WorkerIdle(w) == worker[w] = 0

\* The end of one closure marks every thread of the pool free.
ReleaseAll(i) == [w \in Workers |-> 0]

\* The thread that ran closure i is free again.
Release(i) == [w \in Workers |-> IF worker[w] = i THEN 0 ELSE worker[w]]

\* std::fs::metadata(&path).unwrap()
MetadataOk(p) == FS[p].meta

\* File::open(path).unwrap()
OpenOk(p) == FS[p].open

\* The outcome arm of the match in the closure, for the value res of the
\* chain: one line, then the worker is free.  Both arms format
\* file_path.to_str().unwrap() before they print: for a path that is not
\* UTF-8 the closure panics there and prints no line.
Finish(i, calls, res) ==
  IF Utf8(task[i].path)
    THEN /\ task' = [task EXCEPT ![i].st = "done", ![i].calls = calls, ![i].result = res]
         /\ reports' = [reports EXCEPT ![i] =
              Append(@, IF res.ok THEN Uploaded(task[i].path, res.val.url)
                                  ELSE Error(task[i].path, res.err))]
         /\ worker' = Release(i)
    ELSE /\ task' = [task EXCEPT ![i].st = "panicked", ![i].calls = calls, ![i].result = res]
         /\ worker' = Release(i)
         /\ UNCHANGED reports

\* A panic unwinds the closure: no outcome line; the pool catches it, keeps
\* it for the caller of for_each, and the worker goes on.  (rayon splits the
\* list over 2 * NumThreads leaves before it runs targets one after the
\* other, so up to 8 targets each closure is a job of its own, as here; in a
\* longer list the panic also skips the targets left in the same leaf.)
Panic(i, calls) ==
  /\ task' = [task EXCEPT ![i].st = "panicked", ![i].calls = calls]
  /\ worker' = Release(i)
  /\ UNCHANGED reports

\* An idle worker takes a target and enters begin_upload up to send():
\* metadata().unwrap(), then file_name().unwrap().to_str().unwrap().
StartTask(w, i) ==
  /\ pc = "for_each"
  /\ WorkerIdle(w)
  /\ task[i].st = "pending"
  /\ IF MetadataOk(task[i].path) /\ FileNameUtf8(task[i].path)
       THEN /\ task' = [task EXCEPT ![i].st = "begin_upload",
                                    ![i].calls = Append(@, Call("Initiate", task[i].path))]
            /\ worker' = [worker EXCEPT ![w] = i]
            /\ UNCHANGED reports
       ELSE Panic(i, task[i].calls)
  /\ UNCHANGED <<args, pc, k, files, directories, output, exitCode>>

\* A chain that goes on to upload_file whatever begin_upload returned.
InitiateOkMut(res) == TRUE

\* .and_then(|response| upload_file(..)): only on Ok of begin_upload.
InitiateOk(res) == res.ok

\* The url upload_file is given: that of the response of this closure.
TransferUrl(i, response) == response.url

\* begin_upload returned res: on Ok the closure goes on to upload_file up
\* to its send(), on Err to the outcome arm.
AfterBeginUpload(i, calls, res) ==
  IF InitiateOk(res)
    THEN IF OpenOk(task[i].path)
           THEN /\ task' = [task EXCEPT
                     ![i].st = "upload_file",
                     ![i].response = res.val,
                     ![i].calls = Append(calls, Call("Transfer", TransferUrl(i, res.val)))]
                /\ UNCHANGED <<worker, reports>>
           ELSE Panic(i, calls)
    ELSE Finish(i, calls, res)

\* send() of begin_upload returns h: an Err or a 403 ends begin_upload,
\* any other status takes it to response.json().
BeginUploadSend(i, h) ==
  /\ pc = "for_each"
  /\ task[i].st = "begin_upload"
  /\ IF ReadsBody(h)
       THEN /\ task' = [task EXCEPT ![i].st = "begin_upload_json",
                                    ![i].calls = Receive(i, h)]
            /\ UNCHANGED <<worker, reports>>
       ELSE AfterBeginUpload(i, Answer(i, h), begin_upload(h))
  /\ UNCHANGED <<args, pc, k, files, directories, output, exitCode>>

\* response.json() of begin_upload returns: r is the response with the
\* body that was read.
BeginUploadJson(i, r) ==
  /\ pc = "for_each"
  /\ task[i].st = "begin_upload_json"
  /\ r.sent /\ r.status = Received(i).status
  /\ AfterBeginUpload(i, Answer(i, r), begin_upload(r))
  /\ UNCHANGED <<args, pc, k, files, directories, output, exitCode>>

\* A chain that goes on to finalize_file whatever upload_file returned.
TransferOkMut(res) == TRUE

\* .and_then(|response| finalize_file(..)): only on Ok of upload_file.
TransferOk(res) == res.ok

\* The id read from a slot shared by the closures (that of the first one).
FinalizeIdMut(i) == task[1].response.id

\* The id the FinalizeUploadRequest is built from: response.id.
FinalizeId(i) == task[i].response.id

\* send() of upload_file returns r, the response is dropped unread; on Ok
\* the closure goes on to finalize_file up to its send().
UploadFileReturn(i, r) ==
  /\ pc = "for_each"
  /\ task[i].st = "upload_file"
  /\ LET res == upload_file(r)
         calls == Answer(i, r)
     IN  IF TransferOk(res)
           THEN /\ task' = [task EXCEPT
                     ![i].st = "finalize_file",
                     ![i].calls = Append(calls, Call("Finalize", FinalizeUploadRequest(FinalizeId(i))))]
                /\ UNCHANGED <<worker, reports>>
           ELSE Finish(i, calls, res)
  /\ UNCHANGED <<args, pc, k, files, directories, output, exitCode>>

\* send() of finalize_file returns h: an Err or a 403 ends the chain, any
\* other status takes finalize_file to response.json().
FinalizeSend(i, h) ==
  /\ pc = "for_each"
  /\ task[i].st = "finalize_file"
  /\ IF ReadsBody(h)
       THEN /\ task' = [task EXCEPT ![i].st = "finalize_file_json",
                                    ![i].calls = Receive(i, h)]
            /\ UNCHANGED <<worker, reports>>
       ELSE Finish(i, Answer(i, h), finalize_file(h))
  /\ UNCHANGED <<args, pc, k, files, directories, output, exitCode>>

\* response.json() of finalize_file returns: the chain ends.
FinalizeJson(i, r) ==
  /\ pc = "for_each"
  /\ task[i].st = "finalize_file_json"
  /\ r.sent /\ r.status = Received(i).status
  /\ Finish(i, Answer(i, r), finalize_file(r))
  /\ UNCHANGED <<args, pc, k, files, directories, output, exitCode>>

Terminated(i) == task[i].st \in {"done", "panicked"}

\* for_each returns once every closure has returned or unwound; a panic of
\* a closure is resumed in main, which ends the process with status 101.
ForEachReturn ==
  /\ pc = "for_each"
  /\ \A i \in TaskIds : Terminated(i)
  /\ pc' = "exited"
  /\ exitCode' = IF \E i \in TaskIds : task[i].st = "panicked" THEN 101 ELSE 0
  /\ UNCHANGED <<args, k, files, directories, output, task, worker, reports>>

Next ==
  \/ ClassifyPath
  \/ WalkDirs
  \/ FilterFiles
  \/ CheckEmpty
  \/ \E w \in Workers, i \in TaskIds : StartTask(w, i)
  \/ \E i \in TaskIds : \E h \in Headers(BasicInitiateResponses(i)) : BeginUploadSend(i, h)
  \/ \E i \in TaskIds : \E r \in BasicInitiateResponses(i) : BeginUploadJson(i, r)
  \/ \E i \in TaskIds : \E h \in Headers(BasicTransferResponses) : UploadFileReturn(i, h)
  \/ \E i \in TaskIds : \E h \in Headers(BasicFinalizeResponses(task[i].response.id)) : FinalizeSend(i, h)
  \/ \E i \in TaskIds : \E r \in BasicFinalizeResponses(task[i].response.id) : FinalizeJson(i, r)
  \/ ForEachReturn

Spec == Init /\ [][Next]_vars

\* Every network call returns and the threads are scheduled: as long as a
\* step is possible, a step is taken.
FairSpec == Spec /\ WF_vars(Next)

\* The same program against a service that answers with any response.
NextService ==
  \/ ClassifyPath
  \/ WalkDirs
  \/ FilterFiles
  \/ CheckEmpty
  \/ \E w \in Workers, i \in TaskIds : StartTask(w, i)
  \/ \E i \in TaskIds : \E h \in Headers(InitiateResponses(i)) : BeginUploadSend(i, h)
  \/ \E i \in TaskIds : \E r \in InitiateResponses(i) : BeginUploadJson(i, r)
  \/ \E i \in TaskIds : \E h \in Headers(TransferResponses) : UploadFileReturn(i, h)
  \/ \E i \in TaskIds : \E h \in Headers(FinalizeResponses(task[i].response.id)) : FinalizeSend(i, h)
  \/ \E i \in TaskIds : \E r \in FinalizeResponses(task[i].response.id) : FinalizeJson(i, r)
  \/ ForEachReturn

SpecService == InitService /\ [][NextService]_vars

\* The same program against a service without faults, started with up to
\* MaxPool targets.
NextPool ==
  \/ ClassifyPath
  \/ WalkDirs
  \/ FilterFiles
  \/ CheckEmpty
  \/ \E w \in Workers, i \in TaskIds : StartTask(w, i)
  \/ \E i \in TaskIds : \E h \in Headers(PoolInitiateResponses(i)) : BeginUploadSend(i, h)
  \/ \E i \in TaskIds : \E r \in PoolInitiateResponses(i) : BeginUploadJson(i, r)
  \/ \E i \in TaskIds : \E h \in Headers(PoolTransferResponses) : UploadFileReturn(i, h)
  \/ \E i \in TaskIds : \E h \in Headers(PoolFinalizeResponses(task[i].response.id)) : FinalizeSend(i, h)
  \/ \E i \in TaskIds : \E r \in PoolFinalizeResponses(task[i].response.id) : FinalizeJson(i, r)
  \/ ForEachReturn

SpecPool == InitPool /\ [][NextPool]_vars

(* ------------------------- vocabulary of the claims ------------------- *)

\* The positions of the calls of operation op among the calls of task i.
Calls(i, op) == { j \in 1..Len(task[i].calls) : task[i].calls[j].op = op }

Ops(i) == [j \in 1..Len(task[i].calls) |-> task[i].calls[j].op]

NetworkCalls == UNION { { <<i, j>> : j \in 1..Len(task[i].calls) } : i \in TaskIds }

\* An Initiate answer that is a failure: network fault, 403, 400, or a body
\* that is not {id, url}.
InitiateFault(r) == ~r.sent \/ r.status \in {400, 403} \/ r.body.kind # "session"

\* A Transfer answer for which upload_file returns Err: a fault of send().
TransferFault(r) == ~r.sent

\* A Transfer answer that is a transport fault or a status fault.
TransferStatusFault(r) == ~r.sent \/ (r.status # NoStatus /\ r.status \notin 200..299)

\* Task i has an answered call of operation op whose answer satisfies Bad.
Answered(i, op, Bad(_)) ==
  \E j \in Calls(i, op) : ~task[i].calls[j].pending /\ Bad(task[i].calls[j].resp)

InitiateSucceeded(r) == ~InitiateFault(r)

TransferSucceeded(r) == ~TransferFault(r)

\* The sessions the service returned to task i.
Sessions(i) ==
  { task[i].calls[j].resp.body : j \in { n \in Calls(i, "Initiate") :
        ~task[i].calls[n].pending /\ InitiateSucceeded(task[i].calls[n].resp) } }

\* Task i is executing: it has entered begin_upload and has not ended.
Executing(i) ==
  task[i].st \in {"begin_upload", "begin_upload_json", "upload_file",
                  "finalize_file", "finalize_file_json"}

InFlight == { i \in TaskIds : Executing(i) }

\* The chain of task i has evaluated to Err: the task is Failed.
Failed(i) == Terminated(i) /\ task[i].result # NoResult /\ ~task[i].result.ok

\* The chain of task i has evaluated to Err(e).
FailedWith(i, e) == Terminated(i) /\ task[i].result = Err(e)

\* The chain of task i has evaluated to Ok.
Succeeded(i) == Terminated(i) /\ task[i].result.ok

OneFailure(i) == Len(reports[i]) = 1 /\ reports[i][1].kind = "Error"

IsUploaded(i) == Len(reports[i]) >= 1 /\ reports[i][1].kind = "Uploaded"

HasOutcome(i) ==
  /\ Len(reports[i]) = 1
  /\ reports[i][1].kind \in {"Uploaded", "Error"}
  /\ reports[i][1].path = files[i]

Last(s) == s[Len(s)]

\* The executor was entered: tasks exist only from for_each on.
Submitted == task # << >>

(* -------------------------------- claims ------------------------------ *)

\* C1: every target handed to for_each gets exactly one outcome, Uploaded
\* or Error, tagged with its path: never two at any time, and exactly one
\* each once for_each has returned.
C1_ExactlyOneOutcome ==
  /\ \A i \in TaskIds : Len(reports[i]) <= 1
  /\ (pc = "exited" /\ Submitted) => \A i \in TaskIds : HasOutcome(i)

\* C2: at most NumThreads (4) tasks are executing at any instant, however
\* many targets there are.
C2_WorkerBudget == Cardinality(InFlight) <= NumThreads

\* Four tasks execute while a fifth target waits.
C2_Witness ==
  /\ Cardinality(InFlight) = NumThreads
  /\ \E i \in TaskIds : task[i].st = "pending"

\* C3: a task whose Initiate failed (403, 400, network fault, undecodable
\* body) has issued no Transfer and no Finalize and is Failed: its chain
\* has ended with Err, and it is not reported Uploaded.
C3_InitiateFailureStops ==
  \A i \in TaskIds :
    Answered(i, "Initiate", InitiateFault) =>
      /\ Calls(i, "Transfer") = {}
      /\ Calls(i, "Finalize") = {}
      /\ Failed(i)
      /\ ~IsUploaded(i)

\* A task ended by an Initiate answered 200 with an undecodable body, next
\* to a task that got past Initiate.
C3_Witness ==
  \E i, n \in TaskIds :
    /\ Answered(i, "Initiate", InitiateFault)
    /\ task[i].calls[1].resp = Response(200, Garbage)
    /\ Failed(i) /\ OneFailure(i)
    /\ Calls(n, "Transfer") # {}

\* C4: a task whose Transfer failed has issued no Finalize and is Failed
\* with the Transfer error as its reason.
C4_TransferFailureStops ==
  \A i \in TaskIds :
    Answered(i, "Transfer", TransferFault) =>
      /\ Calls(i, "Finalize") = {}
      /\ FailedWith(i, "error sending request")
      /\ ~IsUploaded(i)

\* A task ended by a failed Transfer.
C4_Witness ==
  \E i \in TaskIds :
    /\ Answered(i, "Transfer", TransferFault)
    /\ Answered(i, "Initiate", InitiateSucceeded)
    /\ reports[i] = << Error(task[i].path, "error sending request") >>

\* C5: a task whose PUT met a transport fault or was answered with a
\* non-success status issues no Finalize and is Failed.
C5_StatusFaultFails ==
  \A i \in TaskIds :
    Answered(i, "Transfer", TransferStatusFault) =>
      /\ Calls(i, "Finalize") = {}
      /\ Failed(i)

\* C6: the calls of a task are Initiate, Transfer, Finalize in this order;
\* a Transfer has an Initiate of the same task before it that returned
\* success, and a Finalize has a Transfer of the same task before it that
\* returned success.
C6_PhaseOrder ==
  \A i \in TaskIds :
    /\ Ops(i) \in { << >>, <<"Initiate">>, <<"Initiate", "Transfer">>,
                     <<"Initiate", "Transfer", "Finalize">> }
    /\ \A j \in Calls(i, "Transfer") :
         \E n \in Calls(i, "Initiate") :
           n < j /\ ~task[i].calls[n].pending /\ InitiateSucceeded(task[i].calls[n].resp)
    /\ \A j \in Calls(i, "Finalize") :
         \E n \in Calls(i, "Transfer") :
           n < j /\ ~task[i].calls[n].pending /\ TransferSucceeded(task[i].calls[n].resp)

\* A task has issued its Finalize while another is still in Initiate.
C6_Witness ==
  \E i, n \in TaskIds :
    /\ Calls(i, "Finalize") # {}
    /\ task[n].st = "begin_upload"

\* C7: the url of a Transfer and the id of a Finalize of a task are those
\* of the session its own Initiate returned, never those of the session of
\* another task, and a task gets at most one session.
C7_SessionIsOwn ==
  \A i \in TaskIds :
    /\ Cardinality(Calls(i, "Initiate")) <= 1
    /\ Cardinality(Sessions(i)) <= 1
    /\ \A j \in Calls(i, "Transfer") :
         /\ \E s \in Sessions(i) : task[i].calls[j].arg = s.url
         /\ \A n \in TaskIds \ {i} : \A s \in Sessions(n) : task[i].calls[j].arg # s.url
    /\ \A j \in Calls(i, "Finalize") :
         /\ \E s \in Sessions(i) : task[i].calls[j].arg.id = s.id
         /\ \A n \in TaskIds \ {i} : \A s \in Sessions(n) : task[i].calls[j].arg.id # s.id

\* Two tasks are in Finalize at the same time, each with a session.
C7_Witness ==
  \E i, n \in TaskIds :
    /\ i # n
    /\ task[i].st = "finalize_file" /\ task[n].st = "finalize_file"
    /\ Sessions(i) # {} /\ Sessions(n) # {}

\* C8: no fault of a task leaves the task: no closure unwinds, every ended
\* task has exactly one outcome, and the process does not end with the
\* status of a panic.
C8_NoErrorEscapes ==
  /\ \A i \in TaskIds : task[i].st # "panicked"
  /\ \A i \in TaskIds : Terminated(i) => Len(reports[i]) = 1
  /\ exitCode # 101

\* C9: for_each returns only when every target has its outcome, and with
\* every call returning and fair scheduling every target gets its outcome
\* and the process exits.
C9_AllOutcomesThenExit ==
  /\ []((pc = "exited" /\ Submitted) => \A i \in TaskIds : HasOutcome(i))
  /\ ((pc = "for_each") ~> (pc = "exited" /\ \A i \in TaskIds : HasOutcome(i)))

\* The filter has run (the run did not end in the classification loop or
\* in the walk).
FilterDone ==
  \/ pc \in {"check", "for_each"}
  \/ pc = "exited" /\ Last(output) \in {"No video files found.", "Uploading files"}

\* C10: when no file is left after filtering, no task is created, no
\* network call is issued, and the process ends with the message
\* 'No video files found.' and status 1, not with a panic.
C10_NothingToDo ==
  (FilterDone /\ files = << >>) =>
    /\ task = << >>
    /\ NetworkCalls = {}
    /\ pc # "for_each"
    /\ pc = "exited" => (Last(output) = "No video files found." /\ exitCode = 1)

\* A run given paths none of which is a video has ended with the message.
C10_Witness ==
  /\ args # << >>
  /\ pc = "exited"
  /\ files = << >>
  /\ Last(output) = "No video files found."
  /\ exitCode = 1

\* Some supplied path is neither a file nor a directory.
HasInvalidArg == \E j \in 1..Len(args) : ~is_dir(args[j]) /\ ~is_file(args[j])

\* C11: the exit status is non-zero when a supplied path is neither file
\* nor directory or when no eligible file is left, and zero in every other
\* run, whatever the outcomes of the files.
C11_ExitStatus ==
  pc = "exited" =>
    (exitCode # 0 <=> (HasInvalidArg \/ (FilterDone /\ files = << >>)))

\* Every Initiate that was answered was answered with status 403.
AllInitiate403 ==
  \A i \in TaskIds : \A j \in Calls(i, "Initiate") :
    task[i].calls[j].pending
      \/ (task[i].calls[j].resp.sent /\ task[i].calls[j].resp.status = 403)

\* C12: in a finished run whose Initiate calls were all answered with 403,
\* every task has issued its Initiate, every task has the one outcome
\* Error 'Invalid API key', and no Transfer or Finalize was issued.
C12_InvalidCredential ==
  (pc = "exited" /\ Submitted /\ AllInitiate403) =>
    \A i \in TaskIds :
      /\ Cardinality(Calls(i, "Initiate")) = 1
      /\ Calls(i, "Transfer") = {}
      /\ Calls(i, "Finalize") = {}
      /\ reports[i] = << Error(task[i].path, "Invalid API key") >>

\* C13: the Failure of a task whose Initiate was answered 403 carries
\* 'Invalid API key'; answered 400 with {status, reason}, exactly the reason
\* the service sent; met by a network fault or a malformed body, the
\* transport error; whatever becomes of the other tasks.
C13_InitiateErrorKinds ==
  \A i \in TaskIds : \A j \in Calls(i, "Initiate") :
    LET r == task[i].calls[j].resp
    IN  ~task[i].calls[j].pending =>
          /\ ~r.sent => FailedWith(i, "error sending request")
          /\ (r.sent /\ r.status = 403) => FailedWith(i, "Invalid API key")
          /\ (r.sent /\ r.status = 400 /\ r.body.kind = "error") =>
                FailedWith(i, r.body.reason)
          /\ (r.sent /\ r.status # 403 /\ r.body.kind = "garbage") =>
                FailedWith(i, "error decoding response body")
          /\ \A n \in 1..Len(reports[i]) :
                reports[i][n].kind = "Error" => reports[i][n].err = task[i].result.err

\* One task failed with the reason the service sent with its 400 while
\* another task of the run was uploaded.
C13_Witness ==
  \E i, n \in TaskIds :
    /\ reports[i] = << Error(task[i].path, "duplicate file") >>
    /\ task[i].calls[1].resp = Response(400, ErrorBody)
    /\ Len(reports[n]) = 1 /\ reports[n][1].kind = "Uploaded"

\* An answer for which the call of operation op returns Err.
CallFault(op, r) ==
  CASE op = "Initiate" -> InitiateFault(r)
    [] op = "Transfer" -> TransferFault(r)
    [] op = "Finalize" -> ~r.sent \/ r.status = 403 \/ r.body.kind # "session"

\* C14: a task issues each of Initiate, Transfer and Finalize at most once;
\* a call that failed is the last call of its task; and every ended task
\* has produced exactly one outcome, never more.
C14_NoRetryOneOutcome ==
  \A i \in TaskIds :
    /\ \A op \in {"Initiate", "Transfer", "Finalize"} : Cardinality(Calls(i, op)) <= 1
    /\ Len(task[i].calls) <= 3
    /\ \A j \in 1..Len(task[i].calls) :
         (~task[i].calls[j].pending /\ CallFault(task[i].calls[j].op, task[i].calls[j].resp))
            => (j = Len(task[i].calls) /\ task[i].st = "done")
    /\ Len(reports[i]) <= 1
    /\ Terminated(i) => Len(reports[i]) = 1

\* C15: a task is reported Uploaded only after its Initiate, Transfer and
\* Finalize all returned success, and with the url its Finalize returned,
\* not the url of its session; a Finalize answered 403 gives the Error
\* 'Invalid API key', and one met by a network fault or an unparseable
\* body gives an Error.
C15_SuccessCarriesFinalUrl ==
  \A i \in TaskIds :
    /\ IsUploaded(i) =>
         /\ Ops(i) = <<"Initiate", "Transfer", "Finalize">>
         /\ \A j \in 1..3 : ~task[i].calls[j].pending
                              /\ ~CallFault(task[i].calls[j].op, task[i].calls[j].resp)
         /\ reports[i] = << Uploaded(task[i].path, task[i].calls[3].resp.body.url) >>
         /\ reports[i][1].url # task[i].calls[1].resp.body.url
    /\ \A j \in Calls(i, "Finalize") :
         LET r == task[i].calls[j].resp
         IN  ~task[i].calls[j].pending =>
               /\ (r.sent /\ r.status = 403) => FailedWith(i, "Invalid API key")
               /\ (~r.sent \/ r.body.kind # "session") => (Failed(i) /\ ~IsUploaded(i))

\* One task was uploaded and another had its Finalize answered 403.
C15_Witness ==
  \E i, n \in TaskIds :
    /\ IsUploaded(i)
    /\ reports[i][1].url = <<"final", i>>
    /\ Answered(n, "Finalize", LAMBDA r : r.sent /\ r.status = 403)
    /\ OneFailure(n)

\* The threads that run task i.
HeldBy(i) == { w \in Workers : worker[w] = i }

\* C16: every executing task is run by exactly one thread and a thread
\* runs only an executing task, so no thread holds two tasks; and a thread
\* that runs a task keeps it until that task has ended, and only then is
\* free for another target.
C16_OneTaskPerWorker ==
  /\ [](\A i \in TaskIds : Executing(i) => Cardinality(HeldBy(i)) = 1)
  /\ [](\A w \in Workers : worker[w] # 0 => Executing(worker[w]))
  /\ [][\A w \in Workers :
          worker[w] # 0 =>
            \/ worker'[w] = worker[w]
            \/ worker'[w] = 0 /\ task'[worker[w]].st \in {"done", "panicked"}]_vars

\* All four threads are blocked in calls, one of them in the task it took
\* after its first one ended.
C16_Witness ==
  /\ \A w \in Workers : worker[w] # 0 /\ Executing(worker[w])
  /\ \E i \in TaskIds : task[i].st = "done"

\* The discovered list of a command line: the supplied files in order,
\* then the entries found under the supplied directories in order.
Discovered == SelectSeq(args, is_file) \o WalkAll(SelectSeq(args, is_dir)).pushed

\* C17: no task exists while main classifies, walks or filters; the tasks
\* are exactly the entries of the whole discovered list that the filter
\* accepts, supplied files and directory entries alike; and every network
\* call belongs to a task whose path the filter accepts.
C17_FilterBeforeTasks ==
  /\ pc \in {"classify", "walk", "filter"} => task = << >>
  /\ Submitted =>
       [i \in TaskIds |-> task[i].path] = SelectSeq(Discovered, is_video)
  /\ \A c \in NetworkCalls : is_video(task[c[1]].path)

\* A call was issued in a run whose discovered list held rejected paths,
\* both supplied and found under a directory.
C17_Witness ==
  /\ NetworkCalls # {}
  /\ \E j \in 1..Len(args) : is_file(args[j]) /\ ~is_video(args[j])
  /\ \E j \in 1..Len(args) : is_dir(args[j])
  /\ Len(Discovered) > Len(task)

\* C18: when some supplied path is neither a file nor a directory, main
\* never gets past the classification loop: no task, no network call, and
\* the process ends with a non-zero status (1 after the message, 101 when
\* the path cannot be printed), wherever the valid paths stand.
C18_InvalidPathStopsAll ==
  HasInvalidArg =>
    /\ pc \in {"classify", "exited"}
    /\ task = << >>
    /\ NetworkCalls = {}
    /\ pc = "exited" =>
         /\ exitCode \in {1, 101}
         /\ exitCode = 1 <=> Last(output) = "Invalid file or directory"

\* The run of a command line with an eligible video before the invalid
\* path has ended.
C18_Witness ==
  /\ pc = "exited"
  /\ Len(args) = 2
  /\ is_file(args[1]) /\ is_video(args[1])
  /\ ~is_dir(args[2]) /\ ~is_file(args[2])

\* Some path is reached more than once.
Reached2 == \E i, n \in TaskIds : i # n /\ task[i].path = task[n].path

\* C19: the list is not deduplicated: there is one task per accepted
\* occurrence in the discovered list, sessions of different tasks differ,
\* and in a finished run in which a path was reached more than once every
\* task has issued its own Initiate and the number of outcomes equals the
\* number of list entries.
C19_OneTaskPerOccurrence ==
  /\ Submitted => Len(task) = Len(SelectSeq(Discovered, is_video))
  /\ \A i, n \in TaskIds : i # n => Sessions(i) \cap Sessions(n) = {}
  /\ (pc = "exited" /\ Submitted /\ Reached2) =>
       /\ \A i \in TaskIds : Cardinality(Calls(i, "Initiate")) = 1
       /\ \A i \in TaskIds : Len(reports[i]) <= 1
       /\ Cardinality({ i \in TaskIds : Len(reports[i]) = 1 }) = Len(files)

\* Task i ended in begin_upload: its Initiate returned no session.
EndedInInitiate(i) == Failed(i) /\ Len(task[i].calls) = 1

\* C20: an answered Initiate returned a session exactly when its status
\* was neither 403 nor 400 and its body decoded to {id, url}, whatever the
\* status otherwise; an answered Finalize returned a final url exactly
\* when its status was not 403 and its body decoded to {id, url}; and an
\* Initiate answered 400 with a body that is not {status, reason} gives a
\* Failure whose reason is the decode error.
C20_DecodedBodyDecides ==
  \A i \in TaskIds :
    /\ \A j \in Calls(i, "Initiate") :
         LET r == task[i].calls[j].resp
         IN  ~task[i].calls[j].pending =>
               /\ (r.sent /\ r.status \notin {400, 403} /\ r.body.kind = "session")
                     <=> ~EndedInInitiate(i)
               /\ \A n \in Calls(i, "Transfer") : task[i].calls[n].arg = r.body.url
               /\ (r.sent /\ r.status = 400 /\ r.body.kind # "error") =>
                     FailedWith(i, "error decoding response body")
    /\ \A j \in Calls(i, "Finalize") :
         LET r == task[i].calls[j].resp
         IN  ~task[i].calls[j].pending =>
               /\ (r.sent /\ r.status # 403 /\ r.body.kind = "session") <=> Succeeded(i)
               /\ Succeeded(i) => task[i].result.val.url = r.body.url
               /\ IsUploaded(i) => (Succeeded(i) /\ reports[i][1].url = r.body.url)

\* A task was uploaded although its Finalize was answered with status 500,
\* next to a task that went on to its Transfer with the session of an
\* Initiate answered with status 500.
C20_Witness ==
  \E i, n \in TaskIds :
    /\ IsUploaded(i)
    /\ task[i].calls[3].resp = Response(500, FinalBody(i))
    /\ task[n].st = "upload_file"
    /\ task[n].calls[1].resp = Response(500, SessionBody(n))

====
